---- MODULE Spec2Model ----
(***************************************************************************)
(* Model of the ICMP measurement core of mullvad-compass:                  *)
(*   - the worker pool dispatcher  LocationsWithFactory / pingWorker       *)
(*     (package ping, ping.go), driven through the Pinger interface;      *)
(*   - the POSIX socketManager (reader goroutine, Ping, Close);            *)
(*   - the windowsSocketManager (Ping with its native call, Close);        *)
(*   - the retry loop of api.Client.GetUserLocation.                       *)
(* Every goroutine is a process with a program counter; a Go select that   *)
(* has several ready cases is a nondeterministic choice among them.        *)
(***************************************************************************)
EXTENDS Integers, Sequences, FiniteSets, TLC

\* ------------------------------------------------------------------ bounds
MaxTargets == 2
MaxWorkers == 2
MaxPings == 2
MaxCloseCalls == 2
ElapsedMs == 0
MaxRetries == 2

\* ------------------------------------------------------- program constants
protocolICMP == 1
protocolICMPv6 == 58
MockLatency == 10
MaxInt32 == 2147483647
Millisecond == 1000000
defaultMaxRetries == 3

\* A *float64 is modelled as a sequence: <<>> is the nil pointer, <<v>> points to v.
Nil == <<>>
Some(v) == <<v>>

\* A nil error, and ctx.Err() of a cancelled context.
NoError == "nil"
Canceled == "context canceled"

VARIABLES
    \* --- inputs of LocationsWithFactory
    numLocations,   \* len(locations)
    workers,        \* the workers argument
    ipVersion,      \* "IPv4" or "IPv6"
    factoryFails,   \* whether factory.CreatePinger returns an error
    timeoutMs,      \* the timeout argument, in milliseconds
    \* --- the caller's context
    ctxDone,        \* ctx.Done() is closed / ctx.Err() != nil
    cancelledAt,    \* history: mainPc at the moment of cancellation
    \* --- LocationsWithFactory
    mainPc,
    started,        \* loop variable i of the worker start loop
    workChan, workClosed,
    resultChan, resultClosed,
    feederPc, feedIdx,
    waiterPc,
    wk,             \* per worker goroutine: [pc, loc, lat]
    results,
    ret,            \* the returned pair: results (isNil: a nil slice) and err
    \* --- the Pinger behind the factory (call recording as in MockPinger)
    createCalls, closeCalls,
    pingCalls,      \* address -> number of Ping calls with it
    pingRet,        \* location index -> the values its Ping calls returned, in order
    pingTimeouts,   \* the timeout arguments the Ping calls were given
    \* --- socketManager (POSIX)
    protocol,       \* m.protocol
    seqCounter,     \* m.seqCounter
    inFlight,       \* m.inFlight: set of <<seq, channel>>, a channel named by its Ping call
    mgrCtxDone,     \* m.ctx is cancelled
    connClosed,     \* m.conn is closed
    readerPc,       \* position of the reader goroutine
    readerMsg,      \* the echo reply the reader is routing: [seq, peerIP]
    readerCh,       \* the channel the reader took out of inFlight (0: none)
    respChan,       \* per Ping call: the buffered (capacity 1) response channel
    respClosed,     \* per Ping call: close(respChan) was executed
    pg,             \* per Ping call: position, arguments, locals and return value;
                    \* history: delivered (the replies the reader put on its channel) and
                    \* ctxAtSelect (ctx was cancelled when its select was decided)
    closePc,        \* position of the goroutine calling Close
    closeCount,     \* number of Close calls that returned
    closeErr,       \* the local err of Close: what the last m.conn.Close() returned
    panicked,       \* a goroutine panicked (the process is gone)
    \* --- windowsSocketManager
    platform,       \* the build: "posix" (socketManager) or "windows" (windowsSocketManager)
    wClosed,        \* m.closed
    wReleases,      \* number of icmp.IcmpCloseHandle(m.handle) calls
    wCloseCount,    \* number of Close calls that returned
    wCloseRet,      \* what the last Close call returned
    wpg,            \* per Ping call: position, argument, return value, its goroutine
                    \* (gpc, latencyMs) and resultChan; history: cancelledInFlight (ctx was
                    \* cancelled while the native call was in flight and Ping had not
                    \* returned) and ctxAtCall
    \* --- api.Client.GetUserLocation
    maxRetries,     \* c.maxRetries
    apiPc,          \* position of GetUserLocation
    attempt,        \* the loop variable
    lastErr,        \* the local lastErr
    responses,      \* history: what each doGetUserLocation call met, in order
    apiRet          \* the returned pair: location and err

dvars == <<numLocations, workers, ipVersion, factoryFails, timeoutMs, ctxDone, cancelledAt,
           mainPc, started, workChan, workClosed, resultChan, resultClosed,
           feederPc, feedIdx, waiterPc, wk, results, ret,
           createCalls, closeCalls, pingCalls, pingRet, pingTimeouts>>

svars == <<protocol, seqCounter, inFlight, mgrCtxDone, connClosed, readerPc, readerMsg,
           readerCh, respChan, respClosed, pg, closePc, closeCount, closeErr, panicked>>

wvars == <<platform, wClosed, wReleases, wCloseCount, wCloseRet, wpg>>

avars == <<maxRetries, apiPc, attempt, lastErr, responses, apiRet>>

vars == <<dvars, svars, wvars, avars>>

\* ---------------------------------------------------------------- helpers
Min(a, b) == IF a < b THEN a ELSE b

Workers == 1..MaxWorkers
LocIdx == 1..MaxTargets

\* relays.Location: the identity and the two address fields.
Location(i) == [Hostname |-> i, IPv4Address |-> <<4, i>>, IPv6Address |-> <<6, i>>]

Addresses == {<<f, i>> : f \in {4, 6}, i \in LocIdx}

IsIPv6(v) == v = "IPv6"

\* Outcomes of Pinger.Ping: a latency or nil.
PingOutcomes == {Nil, Some(MockLatency)}

\* Variant: the worker count is not clamped to the number of locations.
NumWorkers_Unclamped(w, n) == w

\* numWorkers := workers; if numWorkers > len(locations) { numWorkers = len(locations) }
NumWorkers(w, n) == IF w > n THEN n ELSE w

\* Variant: the IPv4 address is used whatever the requested family.
SelectAddress_AlwaysIPv4(v, loc) == loc.IPv4Address

\* ipAddr selection of pingWorker
SelectAddress(v, loc) == IF IsIPv6(v) THEN loc.IPv6Address ELSE loc.IPv4Address

\* The timeout arguments of LocationsWithFactory, in milliseconds.
TimeoutsMs == {500, 1000}

\* to := time.Duration(timeout) * time.Millisecond   (a Duration counts nanoseconds)
to(timeout) == timeout * Millisecond

\* Variant: the cancellation is not reported.
CtxErr_Dropped(done) == NoError

\* ctx.Err() as evaluated at the end of LocationsWithFactory
CtxErr(done) == IF done THEN Canceled ELSE NoError

\* Variant: wg.Wait returns at once.
WaitGroupZero_NoWait == TRUE

\* All worker goroutines that were started have called wg.Done
WaitGroupZero == \A w \in Workers : wk[w].pc \in {"unstarted", "exit"}

\* ------------------------------------------------------------------- Init
Pings == 1..MaxPings

\* The reader holds no datagram.
NoMsg == [seq |-> 0, peerIP |-> ""]

\* newSocketManager: the manager right after construction, reader goroutine started.
NewSocketManager(proto) ==
    /\ protocol = proto
    /\ seqCounter = 0
    /\ inFlight = {}
    /\ mgrCtxDone = FALSE
    /\ connClosed = FALSE
    /\ readerPc = "top"
    /\ readerMsg = NoMsg
    /\ readerCh = 0
    /\ respChan = [p \in Pings |-> <<>>]
    /\ respClosed = [p \in Pings |-> FALSE]
    /\ pg = [p \in Pings |-> [pc |-> "idle", ipAddr |-> "", seq |-> 0,
                               sent |-> FALSE, delivered |-> <<>>, ret |-> Nil,
                               ctxAtSelect |-> FALSE]]
    /\ closePc = "idle"
    /\ closeCount = 0
    /\ closeErr = "unset"
    /\ panicked = FALSE

\* newWindowsSocketManager: the manager right after construction (handle created).
NewWindowsSocketManager ==
    /\ wClosed = FALSE
    /\ wReleases = 0
    /\ wCloseCount = 0
    /\ wCloseRet = "unset"
    /\ wpg = [p \in Pings |-> [pc |-> "idle", ipAddr |-> "", ret |-> Nil,
                                gpc |-> "none", latencyMs |-> Nil, resultChan |-> <<>>,
                                cancelledInFlight |-> FALSE, ctxAtCall |-> FALSE]]

\* An error value of the api package that is just a message (nil, ctx.Err()).
PlainError(message) == [message |-> message]

\* doGetUserLocation's nil error.
NilErr == [isNil |-> TRUE, apiError |-> FALSE, Retriable |-> FALSE]

\* NewClient(): the default client, GetUserLocation not yet called.
NewClient ==
    /\ maxRetries = defaultMaxRetries
    /\ apiPc = "loop"
    /\ attempt = 0
    /\ lastErr = NilErr
    /\ responses = <<>>
    /\ apiRet = [location |-> Nil, err |-> PlainError("unset")]

\* The dispatcher before LocationsWithFactory is entered.
DispatcherAtRest ==
    /\ cancelledAt = "never"
    /\ mainPc = "create"
    /\ started = 0
    /\ workChan = <<>> /\ workClosed = FALSE
    /\ resultChan = <<>> /\ resultClosed = FALSE
    /\ feederPc = "unstarted" /\ feedIdx = 1
    /\ waiterPc = "unstarted"
    /\ wk = [w \in Workers |-> [pc |-> "unstarted", loc |-> 0, lat |-> Nil]]
    /\ results = <<>>
    /\ ret = [results |-> <<>>, isNil |-> TRUE, err |-> "unset"]
    /\ createCalls = 0 /\ closeCalls = 0
    /\ pingCalls = [a \in Addresses |-> 0]
    /\ pingRet = [i \in LocIdx |-> <<>>]
    /\ pingTimeouts = {}

InitDispatcher ==
    /\ numLocations \in 0..MaxTargets
    /\ workers \in 0..MaxWorkers
    /\ ipVersion \in {"IPv4", "IPv6"}
    /\ factoryFails \in BOOLEAN
    /\ timeoutMs \in TimeoutsMs
    /\ ctxDone = FALSE
    /\ DispatcherAtRest
    /\ NewSocketManager(protocolICMP)
    /\ platform = "posix"
    /\ NewWindowsSocketManager
    /\ NewClient

\* ------------------------------------------------------ the caller's context
\* The caller cancels ctx; it may do so before, during and up to the return of the call.
Cancel ==
    /\ ~ctxDone
    /\ mainPc # "returned"
    /\ ctxDone' = TRUE
    /\ cancelledAt' = mainPc
    /\ UNCHANGED <<numLocations, workers, ipVersion, factoryFails, timeoutMs,
                   mainPc, started, workChan, workClosed, resultChan, resultClosed,
                   feederPc, feedIdx, waiterPc, wk, results, ret,
                   createCalls, closeCalls, pingCalls, pingRet, pingTimeouts>>
    /\ UNCHANGED <<svars, wvars, avars>>

\* ---------------------------------------------------- LocationsWithFactory
\* Variant: the error of CreatePinger is ignored.
CreatePinger_IgnoreError ==
    /\ mainPc = "create"
    /\ createCalls' = createCalls + 1
    /\ mainPc' = "startWorkers"
    /\ UNCHANGED ret
    /\ UNCHANGED <<numLocations, workers, ipVersion, factoryFails, timeoutMs, ctxDone, cancelledAt,
                   started, workChan, workClosed, resultChan, resultClosed,
                   feederPc, feedIdx, waiterPc, wk, results,
                   closeCalls, pingCalls, pingRet, pingTimeouts>>
    /\ UNCHANGED <<svars, wvars, avars>>

\* pinger, err := factory.CreatePinger(ipVersion); if err != nil { return nil, err }
CreatePinger ==
    /\ mainPc = "create"
    /\ createCalls' = createCalls + 1
    /\ IF factoryFails
         THEN /\ ret' = [results |-> <<>>, isNil |-> TRUE, err |-> "factory error"]
              /\ mainPc' = "returned"
         ELSE /\ mainPc' = "startWorkers"
              /\ UNCHANGED ret
    /\ UNCHANGED <<numLocations, workers, ipVersion, factoryFails, timeoutMs, ctxDone, cancelledAt,
                   started, workChan, workClosed, resultChan, resultClosed,
                   feederPc, feedIdx, waiterPc, wk, results,
                   closeCalls, pingCalls, pingRet, pingTimeouts>>
    /\ UNCHANGED <<svars, wvars, avars>>

\* Variant: the start loop tests its condition after its body (one worker at least).
StartWorker_AtLeastOne ==
    /\ mainPc = "startWorkers"
    /\ started < NumWorkers(workers, numLocations) \/ started = 0
    /\ started' = started + 1
    /\ wk' = [wk EXCEPT ![started + 1].pc = "select"]
    /\ UNCHANGED <<numLocations, workers, ipVersion, factoryFails, timeoutMs, ctxDone, cancelledAt,
                   mainPc, workChan, workClosed, resultChan, resultClosed,
                   feederPc, feedIdx, waiterPc, results, ret,
                   createCalls, closeCalls, pingCalls, pingRet, pingTimeouts>>
    /\ UNCHANGED <<svars, wvars, avars>>

\* for i := 0; i < numWorkers; i++ { wg.Add(1); go func() {...}() }
StartWorker ==
    /\ mainPc = "startWorkers"
    /\ started < NumWorkers(workers, numLocations)
    /\ started' = started + 1
    /\ wk' = [wk EXCEPT ![started + 1].pc = "select"]
    /\ UNCHANGED <<numLocations, workers, ipVersion, factoryFails, timeoutMs, ctxDone, cancelledAt,
                   mainPc, workChan, workClosed, resultChan, resultClosed,
                   feederPc, feedIdx, waiterPc, results, ret,
                   createCalls, closeCalls, pingCalls, pingRet, pingTimeouts>>
    /\ UNCHANGED <<svars, wvars, avars>>

\* The loop is over: start the feeder goroutine and the wg.Wait goroutine,
\* then go on to collect the results.
StartHelpers ==
    /\ mainPc = "startWorkers"
    /\ ~(started < NumWorkers(workers, numLocations))
    /\ feederPc' = "feed"
    /\ waiterPc' = "wait"
    /\ mainPc' = "collect"
    /\ UNCHANGED <<numLocations, workers, ipVersion, factoryFails, timeoutMs, ctxDone, cancelledAt,
                   started, workChan, workClosed, resultChan, resultClosed,
                   feedIdx, wk, results, ret,
                   createCalls, closeCalls, pingCalls, pingRet, pingTimeouts>>
    /\ UNCHANGED <<svars, wvars, avars>>

\* feeder: case workChan <- &locations[i]   (buffer of len(locations))
FeederSend ==
    /\ feederPc = "feed"
    /\ feedIdx <= numLocations
    /\ Len(workChan) < numLocations
    /\ workChan' = Append(workChan, feedIdx)
    /\ feedIdx' = feedIdx + 1
    /\ UNCHANGED <<numLocations, workers, ipVersion, factoryFails, timeoutMs, ctxDone, cancelledAt,
                   mainPc, started, workClosed, resultChan, resultClosed,
                   feederPc, waiterPc, wk, results, ret,
                   createCalls, closeCalls, pingCalls, pingRet, pingTimeouts>>
    /\ UNCHANGED <<svars, wvars, avars>>

\* Variant: on cancellation the feeder returns and leaves the work queue open.
FeederCancelled_NoClose ==
    /\ feederPc = "feed"
    /\ feedIdx <= numLocations
    /\ ctxDone
    /\ feederPc' = "exit"
    /\ UNCHANGED <<numLocations, workers, ipVersion, factoryFails, timeoutMs, ctxDone, cancelledAt,
                   mainPc, started, workChan, workClosed, resultChan, resultClosed,
                   feedIdx, waiterPc, wk, results, ret,
                   createCalls, closeCalls, pingCalls, pingRet, pingTimeouts>>
    /\ UNCHANGED <<svars, wvars, avars>>

\* feeder: case <-ctx.Done(): close(workChan); return
FeederCancelled ==
    /\ feederPc = "feed"
    /\ feedIdx <= numLocations
    /\ ctxDone
    /\ workClosed' = TRUE
    /\ feederPc' = "exit"
    /\ UNCHANGED <<numLocations, workers, ipVersion, factoryFails, timeoutMs, ctxDone, cancelledAt,
                   mainPc, started, workChan, resultChan, resultClosed,
                   feedIdx, waiterPc, wk, results, ret,
                   createCalls, closeCalls, pingCalls, pingRet, pingTimeouts>>
    /\ UNCHANGED <<svars, wvars, avars>>

\* feeder: the range loop is over: close(workChan)
FeederClose ==
    /\ feederPc = "feed"
    /\ feedIdx > numLocations
    /\ workClosed' = TRUE
    /\ feederPc' = "exit"
    /\ UNCHANGED <<numLocations, workers, ipVersion, factoryFails, timeoutMs, ctxDone, cancelledAt,
                   mainPc, started, workChan, resultChan, resultClosed,
                   feedIdx, waiterPc, wk, results, ret,
                   createCalls, closeCalls, pingCalls, pingRet, pingTimeouts>>
    /\ UNCHANGED <<svars, wvars, avars>>

\* Variant: the goroutine waits for the workers and leaves resultChan open.
WaitAndClose_NoClose ==
    /\ waiterPc = "wait"
    /\ WaitGroupZero
    /\ waiterPc' = "exit"
    /\ UNCHANGED <<numLocations, workers, ipVersion, factoryFails, timeoutMs, ctxDone, cancelledAt,
                   mainPc, started, workChan, workClosed, resultChan, resultClosed,
                   feederPc, feedIdx, wk, results, ret,
                   createCalls, closeCalls, pingCalls, pingRet, pingTimeouts>>
    /\ UNCHANGED <<svars, wvars, avars>>

\* go func() { wg.Wait(); close(resultChan) }()
WaitAndClose ==
    /\ waiterPc = "wait"
    /\ WaitGroupZero
    /\ resultClosed' = TRUE
    /\ waiterPc' = "exit"
    /\ UNCHANGED <<numLocations, workers, ipVersion, factoryFails, timeoutMs, ctxDone, cancelledAt,
                   mainPc, started, workChan, workClosed, resultChan,
                   feederPc, feedIdx, wk, results, ret,
                   createCalls, closeCalls, pingCalls, pingRet, pingTimeouts>>
    /\ UNCHANGED <<svars, wvars, avars>>

\* for result := range resultChan { result.Location.Latency = result.Latency; append }
Collect ==
    /\ mainPc = "collect"
    /\ resultChan # <<>>
    /\ results' = Append(results, Head(resultChan))
    /\ resultChan' = Tail(resultChan)
    /\ UNCHANGED <<numLocations, workers, ipVersion, factoryFails, timeoutMs, ctxDone, cancelledAt,
                   mainPc, started, workChan, workClosed, resultClosed,
                   feederPc, feedIdx, waiterPc, wk, ret,
                   createCalls, closeCalls, pingCalls, pingRet, pingTimeouts>>
    /\ UNCHANGED <<svars, wvars, avars>>

\* the range loop ends when resultChan is closed and drained
CollectEnd ==
    /\ mainPc = "collect"
    /\ resultChan = <<>>
    /\ resultClosed
    /\ mainPc' = "checkCtx"
    /\ UNCHANGED <<numLocations, workers, ipVersion, factoryFails, timeoutMs, ctxDone, cancelledAt,
                   started, workChan, workClosed, resultChan, resultClosed,
                   feederPc, feedIdx, waiterPc, wk, results, ret,
                   createCalls, closeCalls, pingCalls, pingRet, pingTimeouts>>
    /\ UNCHANGED <<svars, wvars, avars>>

\* Variant: the pinger is closed on the completed path only, not on the cancelled one.
CheckCtx_CloseOnSuccessOnly ==
    /\ mainPc = "checkCtx"
    /\ ret' = [results |-> results, isNil |-> FALSE, err |-> CtxErr(ctxDone)]
    /\ mainPc' = IF ctxDone THEN "returned" ELSE "deferClose"
    /\ UNCHANGED <<numLocations, workers, ipVersion, factoryFails, timeoutMs, ctxDone, cancelledAt,
                   started, workChan, workClosed, resultChan, resultClosed,
                   feederPc, feedIdx, waiterPc, wk, results,
                   createCalls, closeCalls, pingCalls, pingRet, pingTimeouts>>
    /\ UNCHANGED <<svars, wvars, avars>>

\* if ctx.Err() != nil { return results, ctx.Err() }; return results, nil
\* The return values are fixed here; the deferred pinger.Close() runs next.
CheckCtx ==
    /\ mainPc = "checkCtx"
    /\ ret' = [results |-> results, isNil |-> FALSE, err |-> CtxErr(ctxDone)]
    /\ mainPc' = "deferClose"
    /\ UNCHANGED <<numLocations, workers, ipVersion, factoryFails, timeoutMs, ctxDone, cancelledAt,
                   started, workChan, workClosed, resultChan, resultClosed,
                   feederPc, feedIdx, waiterPc, wk, results,
                   createCalls, closeCalls, pingCalls, pingRet, pingTimeouts>>
    /\ UNCHANGED <<svars, wvars, avars>>

\* defer func() { _ = pinger.Close() }()
DeferredClose ==
    /\ mainPc = "deferClose"
    /\ closeCalls' = closeCalls + 1
    /\ mainPc' = "returned"
    /\ UNCHANGED <<numLocations, workers, ipVersion, factoryFails, timeoutMs, ctxDone, cancelledAt,
                   started, workChan, workClosed, resultChan, resultClosed,
                   feederPc, feedIdx, waiterPc, wk, results, ret,
                   createCalls, pingCalls, pingRet, pingTimeouts>>
    /\ UNCHANGED <<svars, wvars, avars>>

\* ------------------------------------------------------------- pingWorker
\* select { case <-ctx.Done(): return
WorkerCancelled(w) ==
    /\ wk[w].pc = "select"
    /\ ctxDone
    /\ wk' = [wk EXCEPT ![w].pc = "exit"]
    /\ UNCHANGED <<numLocations, workers, ipVersion, factoryFails, timeoutMs, ctxDone, cancelledAt,
                   mainPc, started, workChan, workClosed, resultChan, resultClosed,
                   feederPc, feedIdx, waiterPc, results, ret,
                   createCalls, closeCalls, pingCalls, pingRet, pingTimeouts>>
    /\ UNCHANGED <<svars, wvars, avars>>

\* case loc, ok := <-workChan: if !ok { return }
WorkerQueueClosed(w) ==
    /\ wk[w].pc = "select"
    /\ workChan = <<>>
    /\ workClosed
    /\ wk' = [wk EXCEPT ![w].pc = "exit"]
    /\ UNCHANGED <<numLocations, workers, ipVersion, factoryFails, timeoutMs, ctxDone, cancelledAt,
                   mainPc, started, workChan, workClosed, resultChan, resultClosed,
                   feederPc, feedIdx, waiterPc, results, ret,
                   createCalls, closeCalls, pingCalls, pingRet, pingTimeouts>>
    /\ UNCHANGED <<svars, wvars, avars>>

\* case loc, ok := <-workChan: pick the address and call pinger.Ping(ctx, ipAddr, timeout)
WorkerTake(w) ==
    /\ wk[w].pc = "select"
    /\ workChan # <<>>
    /\ LET loc == Head(workChan)
           ipAddr == SelectAddress(ipVersion, Location(loc))
       IN /\ wk' = [wk EXCEPT ![w] = [pc |-> "ping", loc |-> loc, lat |-> Nil]]
          /\ pingCalls' = [pingCalls EXCEPT ![ipAddr] = @ + 1]
          /\ pingTimeouts' = pingTimeouts \cup {to(timeoutMs)}
    /\ workChan' = Tail(workChan)
    /\ UNCHANGED <<numLocations, workers, ipVersion, factoryFails, timeoutMs, ctxDone, cancelledAt,
                   mainPc, started, workClosed, resultChan, resultClosed,
                   feederPc, feedIdx, waiterPc, results, ret,
                   createCalls, closeCalls, pingRet>>
    /\ UNCHANGED <<svars, wvars, avars>>

\* Variant: a worker gives up at the first failed probe.
PingReturns_AbortOnFailure(w) ==
    /\ wk[w].pc = "ping"
    /\ \E lat \in PingOutcomes :
          /\ wk' = [wk EXCEPT ![w].pc = IF lat = Nil THEN "exit" ELSE "send", ![w].lat = lat]
          /\ pingRet' = [pingRet EXCEPT ![wk[w].loc] = Append(@, lat)]
    /\ UNCHANGED <<numLocations, workers, ipVersion, factoryFails, timeoutMs, ctxDone, cancelledAt,
                   mainPc, started, workChan, workClosed, resultChan, resultClosed,
                   feederPc, feedIdx, waiterPc, results, ret,
                   createCalls, closeCalls, pingCalls, pingTimeouts>>
    /\ UNCHANGED <<svars, wvars, avars>>

\* latency := pinger.Ping(...) returns: a latency or nil
PingReturns(w) ==
    /\ wk[w].pc = "ping"
    /\ \E lat \in PingOutcomes :
          /\ wk' = [wk EXCEPT ![w].pc = "send", ![w].lat = lat]
          /\ pingRet' = [pingRet EXCEPT ![wk[w].loc] = Append(@, lat)]
    /\ UNCHANGED <<numLocations, workers, ipVersion, factoryFails, timeoutMs, ctxDone, cancelledAt,
                   mainPc, started, workChan, workClosed, resultChan, resultClosed,
                   feederPc, feedIdx, waiterPc, results, ret,
                   createCalls, closeCalls, pingCalls, pingTimeouts>>
    /\ UNCHANGED <<svars, wvars, avars>>

\* select { case <-ctx.Done(): return   (the result is dropped)
WorkerSendCancelled(w) ==
    /\ wk[w].pc = "send"
    /\ ctxDone
    /\ wk' = [wk EXCEPT ![w].pc = "exit"]
    /\ UNCHANGED <<numLocations, workers, ipVersion, factoryFails, timeoutMs, ctxDone, cancelledAt,
                   mainPc, started, workChan, workClosed, resultChan, resultClosed,
                   feederPc, feedIdx, waiterPc, results, ret,
                   createCalls, closeCalls, pingCalls, pingRet, pingTimeouts>>
    /\ UNCHANGED <<svars, wvars, avars>>

\* Variant: a worker returns after its first result instead of looping.
WorkerSend_ThenExit(w) ==
    /\ wk[w].pc = "send"
    /\ ~resultClosed
    /\ Len(resultChan) < numLocations
    /\ resultChan' = Append(resultChan, [Location |-> wk[w].loc, Latency |-> wk[w].lat])
    /\ wk' = [wk EXCEPT ![w].pc = "exit"]
    /\ UNCHANGED <<numLocations, workers, ipVersion, factoryFails, timeoutMs, ctxDone, cancelledAt,
                   mainPc, started, workChan, workClosed, resultClosed,
                   feederPc, feedIdx, waiterPc, results, ret,
                   createCalls, closeCalls, pingCalls, pingRet, pingTimeouts>>
    /\ UNCHANGED <<svars, wvars, avars>>

\* case resultChan <- Result{Location: loc, Latency: latency}   (buffer of len(locations))
WorkerSend(w) ==
    /\ wk[w].pc = "send"
    /\ ~resultClosed
    /\ Len(resultChan) < numLocations
    /\ resultChan' = Append(resultChan, [Location |-> wk[w].loc, Latency |-> wk[w].lat])
    /\ wk' = [wk EXCEPT ![w].pc = "select"]
    /\ UNCHANGED <<numLocations, workers, ipVersion, factoryFails, timeoutMs, ctxDone, cancelledAt,
                   mainPc, started, workChan, workClosed, resultClosed,
                   feederPc, feedIdx, waiterPc, results, ret,
                   createCalls, closeCalls, pingCalls, pingRet, pingTimeouts>>
    /\ UNCHANGED <<svars, wvars, avars>>

NextDispatcher ==
    \/ Cancel
    \/ CreatePinger
    \/ StartWorker
    \/ StartHelpers
    \/ FeederSend
    \/ FeederCancelled
    \/ FeederClose
    \/ WaitAndClose
    \/ Collect
    \/ CollectEnd
    \/ CheckCtx
    \/ DeferredClose
    \/ \E w \in Workers : WorkerCancelled(w)
    \/ \E w \in Workers : WorkerQueueClosed(w)
    \/ \E w \in Workers : WorkerTake(w)
    \/ \E w \in Workers : PingReturns(w)
    \/ \E w \in Workers : WorkerSendCancelled(w)
    \/ \E w \in Workers : WorkerSend(w)

Spec == InitDispatcher /\ [][NextDispatcher]_vars

\* LocationsWithFactory takes any int as its workers argument: the same call with the
\* worker bounds below zero included (and one timeout: the timeout does nothing but
\* reach the Ping calls).
InitAnyBound ==
    /\ numLocations \in 0..MaxTargets
    /\ workers \in -1..MaxWorkers
    /\ ipVersion \in {"IPv4", "IPv6"}
    /\ factoryFails \in BOOLEAN
    /\ timeoutMs = 500
    /\ ctxDone = FALSE
    /\ DispatcherAtRest
    /\ NewSocketManager(protocolICMP)
    /\ platform = "posix"
    /\ NewWindowsSocketManager
    /\ NewClient

SpecAnyBound == InitAnyBound /\ [][NextDispatcher]_vars

\* The goroutines of a call. Every Ping call returns (PingReturns is a step of the
\* worker that made it).
MainGoroutine ==
    CreatePinger \/ StartWorker \/ StartHelpers \/ Collect \/ CollectEnd \/ CheckCtx
    \/ DeferredClose
FeederGoroutine == FeederSend \/ FeederCancelled \/ FeederClose
WorkerGoroutine(w) ==
    WorkerCancelled(w) \/ WorkerQueueClosed(w) \/ WorkerTake(w) \/ PingReturns(w)
    \/ WorkerSendCancelled(w) \/ WorkerSend(w)

\* A step of some goroutine of the call (any step but the caller's cancellation).
ProgramStep ==
    MainGoroutine \/ FeederGoroutine \/ WaitAndClose \/ \E w \in Workers : WorkerGoroutine(w)

\* =================================================== socketManager (POSIX)
\* The address strings handed to Ping.
AddrStrings == {"192.0.2.1", "192.0.2.2", "2001:db8::1", "not-an-ip"}
NilIP == ""

\* The address strings the next Ping call may be given, after calls for the addresses
\* in used. The two IPv4 hosts differ in name only: the one a manager is asked about
\* first is called 192.0.2.1.
NextAddrs(used) == {a \in AddrStrings : a = "192.0.2.2" => "192.0.2.1" \in used}

\* Variant: any string is taken for an IP.
ParseIP_Lenient(str) == str

\* net.ParseIP: the IP of a literal, nil for anything else.
ParseIP(str) == IF str \in {"192.0.2.1", "192.0.2.2", "2001:db8::1"} THEN str ELSE NilIP

\* The hosts echo replies come from.
PeerIPs == {"192.0.2.1", "192.0.2.2"}

\* resp.peerIP.Equal(ip)
IPEqual(a, b) == a = b

\* net.ResolveUDPAddr("udp6", "["+ipAddr+"]:0") / ("udp4", ipAddr+":0"):
\* fails for a literal of the other family.
IsV6Literal(str) == str = "2001:db8::1"
ResolveUDPAddr(proto, str) ==
    IF proto = protocolICMPv6 THEN IsV6Literal(str) ELSE ~IsV6Literal(str)

\* Variant: the counter is read and not advanced.
allocateSeq_Load(counter) == counter

\* int(m.seqCounter.Add(1)) on an atomic.Int32 (wraps around)
allocateSeq(counter) == IF counter = MaxInt32 THEN -MaxInt32 - 1 ELSE counter + 1

\* Variant: the entry is left in the map.
Delete_Nothing(m, key) == m

\* Variant: the lookup ignores the key.
Load_AnyKey(m, key) == m

\* sync.Map operations on inFlight
Load(m, key) == {e \in m : e[1] = key}
Delete(m, key) == m \ Load(m, key)
Store(m, key, ch) == Delete(m, key) \cup {<<key, ch>>}

\* The sequence numbers an incoming echo reply may carry: those of the echo requests
\* that were sent (answered in time, late or more than once, by the target or by
\* another host) and one that belongs to no request of this manager.
ForeignSeq == 0

\* Body: &xicmp.Echo{ID: 1, Seq: seq, ...} marshalled and parsed back as echo.Seq:
\* the sequence number field of an ICMP echo message has 16 bits.
WireSeq(seq) == seq % 65536

PacketSeqs == {ForeignSeq} \cup {WireSeq(pg[p].seq) : p \in {q \in Pings : pg[q].sent}}

\* Variant: the sender of the response is not verified.
VerifyResponse_Unchecked(resp, ip) == Some(ElapsedMs)

\* The check of Ping on a received response: the sender must be the target.
VerifyResponse(resp, ip) == IF IPEqual(resp.peerIP, ip) THEN Some(ElapsedMs) ELSE Nil

InitSocket ==
    /\ numLocations = 0 /\ workers = 0 /\ ipVersion = "IPv4" /\ factoryFails = FALSE
    /\ timeoutMs = 500
    /\ ctxDone = FALSE
    /\ DispatcherAtRest
    /\ NewSocketManager(protocolICMP)
    /\ platform = "posix"
    /\ NewWindowsSocketManager
    /\ NewClient

dRest == <<numLocations, workers, ipVersion, factoryFails, timeoutMs, cancelledAt,
           mainPc, started, workChan, workClosed, resultChan, resultClosed,
           feederPc, feedIdx, waiterPc, wk, results, ret,
           createCalls, closeCalls, pingCalls, pingRet, pingTimeouts>>

\* The context handed to the Ping calls is cancelled by its owner.
CancelPingCtx ==
    /\ ~panicked
    /\ ~ctxDone
    /\ ctxDone' = TRUE
    /\ UNCHANGED dRest
    /\ UNCHANGED <<svars, wvars, avars>>

\* ---------------------------------------------------------------- reader
\* select { case <-m.ctx.Done(): return; default: }
\* (the datagram of the previous iteration is of no use any more)
ReaderCheckCtx ==
    /\ ~panicked
    /\ readerPc = "top"
    /\ readerPc' = IF mgrCtxDone THEN "exit" ELSE "read"
    /\ readerMsg' = NoMsg
    /\ UNCHANGED <<protocol, seqCounter, inFlight, mgrCtxDone, connClosed,
                   readerCh, respChan, respClosed, pg, closePc, closeCount, closeErr, panicked>>
    /\ UNCHANGED <<dRest, ctxDone, wvars, avars>>

\* ReadFrom returns a timeout error (the 100ms read deadline): continue
ReaderReadTimeout ==
    /\ ~panicked
    /\ readerPc = "read"
    /\ ~connClosed
    /\ readerPc' = "top"
    /\ UNCHANGED <<protocol, seqCounter, inFlight, mgrCtxDone, connClosed, readerMsg,
                   readerCh, respChan, respClosed, pg, closePc, closeCount, closeErr, panicked>>
    /\ UNCHANGED <<dRest, ctxDone, wvars, avars>>

\* ReadFrom returns another error (always so once the socket is closed):
\* if m.ctx.Err() != nil { return }; continue
ReaderReadError ==
    /\ ~panicked
    /\ readerPc = "read"
    /\ readerPc' = IF mgrCtxDone THEN "exit" ELSE "top"
    /\ UNCHANGED <<protocol, seqCounter, inFlight, mgrCtxDone, connClosed, readerMsg,
                   readerCh, respChan, respClosed, pg, closePc, closeCount, closeErr, panicked>>
    /\ UNCHANGED <<dRest, ctxDone, wvars, avars>>

\* A datagram that does not parse, is no echo reply, has no Echo body or has a peer
\* address of an unknown type: continue
ReaderDiscard ==
    /\ ~panicked
    /\ readerPc = "read"
    /\ ~connClosed
    /\ readerPc' = "top"
    /\ UNCHANGED <<protocol, seqCounter, inFlight, mgrCtxDone, connClosed, readerMsg,
                   readerCh, respChan, respClosed, pg, closePc, closeCount, closeErr, panicked>>
    /\ UNCHANGED <<dRest, ctxDone, wvars, avars>>

\* An echo reply was read: echo.Seq and peerIP are extracted. The sender of a reply
\* that belongs to no request is never looked at, so one sender stands for all.
ReaderReadEchoReply ==
    /\ ~panicked
    /\ readerPc = "read"
    /\ ~connClosed
    /\ \E seq \in PacketSeqs, peer \in PeerIPs :
          /\ seq = ForeignSeq => peer = "192.0.2.1"
          /\ readerMsg' = [seq |-> seq, peerIP |-> peer]
    /\ readerPc' = "route"
    /\ UNCHANGED <<protocol, seqCounter, inFlight, mgrCtxDone, connClosed,
                   readerCh, respChan, respClosed, pg, closePc, closeCount, closeErr, panicked>>
    /\ UNCHANGED <<dRest, ctxDone, wvars, avars>>

\* Variant: the reader looks the entry up and leaves it in the map.
ReaderLoadAndDelete_LoadOnly ==
    /\ ~panicked
    /\ readerPc = "route"
    /\ LET found == Load(inFlight, readerMsg.seq)
       IN IF found = {}
            THEN /\ readerPc' = "top"
                 /\ UNCHANGED <<readerCh, readerMsg>>
            ELSE /\ readerCh' = (CHOOSE e \in found : TRUE)[2]
                 /\ readerPc' = "deliver"
                 /\ UNCHANGED readerMsg
    /\ UNCHANGED <<protocol, seqCounter, inFlight, mgrCtxDone, connClosed,
                   respChan, respClosed, pg, closePc, closeCount, closeErr, panicked>>
    /\ UNCHANGED <<dRest, ctxDone, wvars, avars>>

\* if chInterface, ok := m.inFlight.LoadAndDelete(echo.Seq); ok { ... }
ReaderLoadAndDelete ==
    /\ ~panicked
    /\ readerPc = "route"
    /\ LET found == Load(inFlight, readerMsg.seq)
       IN IF found = {}
            THEN /\ readerPc' = "top"
                 /\ UNCHANGED <<inFlight, readerCh, readerMsg>>
            ELSE /\ readerCh' = (CHOOSE e \in found : TRUE)[2]
                 /\ inFlight' = Delete(inFlight, readerMsg.seq)
                 /\ readerPc' = "deliver"
                 /\ UNCHANGED readerMsg
    /\ UNCHANGED <<protocol, seqCounter, mgrCtxDone, connClosed,
                   respChan, respClosed, pg, closePc, closeCount, closeErr, panicked>>
    /\ UNCHANGED <<dRest, ctxDone, wvars, avars>>

\* select { case ch <- &pingResponse{peerIP: peerIP, rtt: 0}: default: }
\* A send on a closed channel panics, in a select as anywhere else.
ReaderDeliver ==
    /\ ~panicked
    /\ readerPc = "deliver"
    /\ IF respClosed[readerCh]
         THEN /\ panicked' = TRUE
              /\ UNCHANGED <<respChan, pg, readerPc, readerCh, readerMsg>>
         ELSE /\ IF Len(respChan[readerCh]) < 1
                   THEN /\ respChan' = [respChan EXCEPT ![readerCh] = Append(@, readerMsg)]
                        /\ pg' = [pg EXCEPT ![readerCh].delivered = Append(@, readerMsg)]
                   ELSE UNCHANGED <<respChan, pg>>
              /\ readerPc' = "top"
              /\ readerCh' = 0
              /\ readerMsg' = NoMsg
              /\ UNCHANGED panicked
    /\ UNCHANGED <<protocol, seqCounter, inFlight, mgrCtxDone, connClosed,
                   respClosed, closePc, closeCount, closeErr>>
    /\ UNCHANGED <<dRest, ctxDone, wvars, avars>>

\* ------------------------------------------------------------------ Ping
\* Ping calls are numbered in the order in which they are made.
\* Ping(ctx, ipAddr, timeout): ip := net.ParseIP(ipAddr); if ip == nil { return nil };
\* seq := m.allocateSeq()
PingCall(p) ==
    /\ ~panicked
    /\ pg[p].pc = "idle"
    /\ \A q \in Pings : q < p => pg[q].pc # "idle"
    /\ closePc = "idle" /\ closeCount = 0
    /\ \E a \in NextAddrs({pg[q].ipAddr : q \in Pings}) :
          IF ParseIP(a) = NilIP
            THEN /\ pg' = [pg EXCEPT ![p].ipAddr = a, ![p].pc = "done"]
                 /\ UNCHANGED seqCounter
            ELSE /\ pg' = [pg EXCEPT ![p].ipAddr = a,
                                     ![p].seq = allocateSeq(seqCounter),
                                     ![p].pc = "store"]
                 /\ seqCounter' = allocateSeq(seqCounter)
    /\ UNCHANGED <<protocol, inFlight, mgrCtxDone, connClosed, readerPc, readerMsg,
                   readerCh, respChan, respClosed, closePc, closeCount, closeErr, panicked>>
    /\ UNCHANGED <<dRest, ctxDone, wvars, avars>>

\* respChan := make(chan *pingResponse, 1); m.inFlight.Store(seq, respChan);
\* then build and marshal the echo request (an Echo body always marshals) and resolve
\* the destination: a resolution error returns nil through the deferred cleanup.
PingStore(p) ==
    /\ ~panicked
    /\ pg[p].pc = "store"
    /\ inFlight' = Store(inFlight, pg[p].seq, p)
    /\ pg' = [pg EXCEPT ![p].pc = IF ResolveUDPAddr(protocol, pg[p].ipAddr)
                                    THEN "send" ELSE "cleanup"]
    /\ UNCHANGED <<protocol, seqCounter, mgrCtxDone, connClosed, readerPc, readerMsg,
                   readerCh, respChan, respClosed, closePc, closeCount, closeErr, panicked>>
    /\ UNCHANGED <<dRest, ctxDone, wvars, avars>>

\* start := time.Now(); _, err = m.conn.WriteTo(msgBytes, dst): sent
PingSend(p) ==
    /\ ~panicked
    /\ pg[p].pc = "send"
    /\ ~connClosed
    /\ pg' = [pg EXCEPT ![p].pc = "wait", ![p].sent = TRUE]
    /\ UNCHANGED <<protocol, seqCounter, inFlight, mgrCtxDone, connClosed, readerPc, readerMsg,
                   readerCh, respChan, respClosed, closePc, closeCount, closeErr, panicked>>
    /\ UNCHANGED <<dRest, ctxDone, wvars, avars>>

\* WriteTo returns an error (always so once the socket is closed): return nil
PingSendError(p) ==
    /\ ~panicked
    /\ pg[p].pc = "send"
    /\ pg' = [pg EXCEPT ![p].pc = "cleanup"]
    /\ UNCHANGED <<protocol, seqCounter, inFlight, mgrCtxDone, connClosed, readerPc, readerMsg,
                   readerCh, respChan, respClosed, closePc, closeCount, closeErr, panicked>>
    /\ UNCHANGED <<dRest, ctxDone, wvars, avars>>

\* select { case resp := <-respChan: verify the sender, return the latency or nil
PingReceive(p) ==
    /\ ~panicked
    /\ pg[p].pc = "wait"
    /\ respChan[p] # <<>>
    /\ LET resp == Head(respChan[p])
       IN pg' = [pg EXCEPT ![p].ret = VerifyResponse(resp, ParseIP(pg[p].ipAddr)),
                           ![p].ctxAtSelect = ctxDone,
                           ![p].pc = "cleanup"]
    /\ respChan' = [respChan EXCEPT ![p] = Tail(@)]
    /\ UNCHANGED <<protocol, seqCounter, inFlight, mgrCtxDone, connClosed, readerPc, readerMsg,
                   readerCh, respClosed, closePc, closeCount, closeErr, panicked>>
    /\ UNCHANGED <<dRest, ctxDone, wvars, avars>>

\* case <-timer.C: return nil
PingTimeout(p) ==
    /\ ~panicked
    /\ pg[p].pc = "wait"
    /\ pg' = [pg EXCEPT ![p].ctxAtSelect = ctxDone, ![p].pc = "cleanup"]
    /\ UNCHANGED <<protocol, seqCounter, inFlight, mgrCtxDone, connClosed, readerPc, readerMsg,
                   readerCh, respChan, respClosed, closePc, closeCount, closeErr, panicked>>
    /\ UNCHANGED <<dRest, ctxDone, wvars, avars>>

\* case <-ctx.Done(): return nil
PingCtxDone(p) ==
    /\ ~panicked
    /\ pg[p].pc = "wait"
    /\ ctxDone
    /\ pg' = [pg EXCEPT ![p].ctxAtSelect = ctxDone, ![p].pc = "cleanup"]
    /\ UNCHANGED <<protocol, seqCounter, inFlight, mgrCtxDone, connClosed, readerPc, readerMsg,
                   readerCh, respChan, respClosed, closePc, closeCount, closeErr, panicked>>
    /\ UNCHANGED <<dRest, ctxDone, wvars, avars>>

\* defer func() { m.inFlight.Delete(seq); close(respChan) }(), then Ping has returned.
\* Nothing receives from the closed channel any more: a response left in its buffer is
\* dropped from the state.
PingCleanup(p) ==
    /\ ~panicked
    /\ pg[p].pc = "cleanup"
    /\ inFlight' = Delete(inFlight, pg[p].seq)
    /\ respClosed' = [respClosed EXCEPT ![p] = TRUE]
    /\ respChan' = [respChan EXCEPT ![p] = <<>>]
    /\ pg' = [pg EXCEPT ![p].pc = "done"]
    /\ UNCHANGED <<protocol, seqCounter, mgrCtxDone, connClosed, readerPc, readerMsg,
                   readerCh, closePc, closeCount, closeErr, panicked>>
    /\ UNCHANGED <<dRest, ctxDone, wvars, avars>>

\* ----------------------------------------------------------------- Close
\* m.conn.Close(): nil, or the error of closing a connection that is closed already.
ErrClosed == "use of closed network connection"
ConnClose(closed) == IF closed THEN ErrClosed ELSE NoError

\* The owner of the manager closes it when no Ping call is running (LocationsWithFactory
\* does so after its workers have exited) and makes no Ping call afterwards.
\* Close(): m.cancel()
CloseCancel ==
    /\ ~panicked
    /\ closePc = "idle"
    /\ \A p \in Pings : pg[p].pc \in {"idle", "done"}
    /\ closeCount < MaxCloseCalls
    /\ mgrCtxDone' = TRUE
    /\ closePc' = "closeConn"
    /\ UNCHANGED <<protocol, seqCounter, inFlight, connClosed, readerPc, readerMsg,
                   readerCh, respChan, respClosed, pg, closeCount, closeErr, panicked>>
    /\ UNCHANGED <<dRest, ctxDone, wvars, avars>>

\* err := m.conn.Close()
CloseConn ==
    /\ ~panicked
    /\ closePc = "closeConn"
    /\ closeErr' = ConnClose(connClosed)
    /\ connClosed' = TRUE
    /\ closePc' = "wait"
    /\ UNCHANGED <<protocol, seqCounter, inFlight, mgrCtxDone, readerPc, readerMsg,
                   readerCh, respChan, respClosed, pg, closeCount, panicked>>
    /\ UNCHANGED <<dRest, ctxDone, wvars, avars>>

\* Variant: Close returns without waiting for the reader.
CloseWait_NoWait ==
    /\ ~panicked
    /\ closePc = "wait"
    /\ closePc' = "idle"
    /\ closeCount' = closeCount + 1
    /\ UNCHANGED <<protocol, seqCounter, inFlight, mgrCtxDone, connClosed, readerPc, readerMsg,
                   readerCh, respChan, respClosed, pg, closeErr, panicked>>
    /\ UNCHANGED <<dRest, ctxDone, wvars, avars>>

\* m.wg.Wait(); return err
CloseWait ==
    /\ ~panicked
    /\ closePc = "wait"
    /\ readerPc = "exit"
    /\ closePc' = "idle"
    /\ closeCount' = closeCount + 1
    /\ UNCHANGED <<protocol, seqCounter, inFlight, mgrCtxDone, connClosed, readerPc, readerMsg,
                   readerCh, respChan, respClosed, pg, closeErr, panicked>>
    /\ UNCHANGED <<dRest, ctxDone, wvars, avars>>

NextSocket ==
    \/ CancelPingCtx
    \/ ReaderCheckCtx
    \/ ReaderReadTimeout
    \/ ReaderReadError
    \/ ReaderDiscard
    \/ ReaderReadEchoReply
    \/ ReaderLoadAndDelete
    \/ ReaderDeliver
    \/ \E p \in Pings : PingCall(p)
    \/ \E p \in Pings : PingStore(p)
    \/ \E p \in Pings : PingSend(p)
    \/ \E p \in Pings : PingSendError(p)
    \/ \E p \in Pings : PingReceive(p)
    \/ \E p \in Pings : PingTimeout(p)
    \/ \E p \in Pings : PingCtxDone(p)
    \/ \E p \in Pings : PingCleanup(p)
    \/ CloseCancel
    \/ CloseConn
    \/ CloseWait

SpecSocket == InitSocket /\ [][NextSocket]_vars

\* The goroutines of the manager that run without its caller: the Go scheduler lets the
\* reader and a Close call that is under way take their steps.
ReaderGoroutine ==
    ReaderCheckCtx \/ ReaderReadTimeout \/ ReaderReadError \/ ReaderDiscard
    \/ ReaderReadEchoReply \/ ReaderLoadAndDelete \/ ReaderDeliver
CloseGoroutine == CloseConn \/ CloseWait

SpecSocketFair == SpecSocket /\ WF_vars(ReaderGoroutine) /\ WF_vars(CloseGoroutine)

\* The values of m.seqCounter the Ping calls may start from: 0 on a new manager, and
\* the value one allocation before the counter's last on a manager whose earlier
\* Ping calls have all returned.
SeqCounters == {0, MaxInt32 - 1}

\* A manager with no Ping call running, reader goroutine at the top of its loop,
\* after the allocations that brought m.seqCounter to counter.
IdleSocketManager(proto, counter) ==
    /\ protocol = proto
    /\ seqCounter = counter
    /\ inFlight = {}
    /\ mgrCtxDone = FALSE
    /\ connClosed = FALSE
    /\ readerPc = "top"
    /\ readerMsg = NoMsg
    /\ readerCh = 0
    /\ respChan = [p \in Pings |-> <<>>]
    /\ respClosed = [p \in Pings |-> FALSE]
    /\ pg = [p \in Pings |-> [pc |-> "idle", ipAddr |-> "", seq |-> 0,
                               sent |-> FALSE, delivered |-> <<>>, ret |-> Nil,
                               ctxAtSelect |-> FALSE]]
    /\ closePc = "idle"
    /\ closeCount = 0
    /\ closeErr = "unset"
    /\ panicked = FALSE

InitSeq ==
    /\ numLocations = 0 /\ workers = 0 /\ ipVersion = "IPv4" /\ factoryFails = FALSE
    /\ timeoutMs = 500
    /\ ctxDone = FALSE
    /\ DispatcherAtRest
    /\ \E c \in SeqCounters : IdleSocketManager(protocolICMP, c)
    /\ platform = "posix"
    /\ NewWindowsSocketManager
    /\ NewClient

SpecSeq == InitSeq /\ [][NextSocket]_vars

\* ==================================================== windowsSocketManager
\* The manager's ipVersion field is the variable ipVersion; a run on this platform
\* leaves the dispatcher and the POSIX manager untouched.
wRest == <<numLocations, workers, ipVersion, factoryFails, timeoutMs, cancelledAt,
           mainPc, started, workChan, workClosed, resultChan, resultClosed,
           feederPc, feedIdx, waiterPc, wk, results, ret,
           createCalls, closeCalls, pingCalls, pingRet, pingTimeouts, svars, platform, avars>>

InitWindows ==
    /\ numLocations = 0 /\ workers = 0 /\ factoryFails = FALSE
    /\ timeoutMs = 500
    /\ ipVersion \in {"IPv4", "IPv6"}
    /\ ctxDone = FALSE
    /\ DispatcherAtRest
    /\ NewSocketManager(protocolICMP)
    /\ platform = "windows"
    /\ NewWindowsSocketManager
    /\ NewClient

\* What the goroutine of Ping gets from pingIPv4 / pingIPv6: a latency (the reply's
\* RoundTripTime) or an error, which it turns into nil. pingIPv4 fails before the
\* native call for an address that is no IPv4 address (IPv4ToUint32 returns 0).
PingOutcomesWindows(v, ip) ==
    IF ~IsIPv6(v) /\ IsV6Literal(ip) THEN {Nil} ELSE {Nil, Some(ElapsedMs)}

\* resultChan := make(chan *float64, 1)
ResultChanCap == 1

\* icmp.IcmpCloseHandle(m.handle): nil or an error
CloseHandleResults == {NoError, "IcmpCloseHandle failed"}

\* The context handed to the Ping calls is cancelled by its owner.
CancelPingCtxWindows ==
    /\ platform = "windows"
    /\ ~ctxDone
    /\ ctxDone' = TRUE
    /\ wpg' = [p \in Pings |->
                 IF wpg[p].pc = "select" /\ wpg[p].gpc = "native"
                   THEN [wpg[p] EXCEPT !.cancelledInFlight = TRUE]
                   ELSE wpg[p]]
    /\ UNCHANGED <<wClosed, wReleases, wCloseCount, wCloseRet>>
    /\ UNCHANGED wRest

\* Ping: if ctx.Err() != nil { return nil }; ip := net.ParseIP(ipAddr);
\* if ip == nil { return nil }; resultChan := make(chan *float64, 1); go func() {...}()
\* Ping calls are numbered in the order in which they are made; the owner makes none
\* after it has closed the manager.
PingCallWindows(p) ==
    /\ platform = "windows"
    /\ wpg[p].pc = "idle"
    /\ \A q \in Pings : q < p => wpg[q].pc # "idle"
    /\ wCloseCount = 0
    /\ \E a \in NextAddrs({wpg[q].ipAddr : q \in Pings}) :
          IF ctxDone \/ ParseIP(a) = NilIP
            THEN wpg' = [wpg EXCEPT ![p].ipAddr = a, ![p].ctxAtCall = ctxDone,
                                    ![p].pc = "done"]
            ELSE wpg' = [wpg EXCEPT ![p].ipAddr = a, ![p].ctxAtCall = ctxDone,
                                    ![p].pc = "select", ![p].gpc = "native"]
    /\ UNCHANGED <<wClosed, wReleases, wCloseCount, wCloseRet>>
    /\ UNCHANGED <<wRest, ctxDone>>

\* goroutine: latencyMs, err = m.pingIPv4(ip, timeout) / m.pingIPv6(ip, timeout) returns
NativeCallReturns(p) ==
    /\ platform = "windows"
    /\ wpg[p].gpc = "native"
    /\ \E lat \in PingOutcomesWindows(ipVersion, ParseIP(wpg[p].ipAddr)) :
          wpg' = [wpg EXCEPT ![p].latencyMs = lat, ![p].gpc = "handover"]
    /\ UNCHANGED <<wClosed, wReleases, wCloseCount, wCloseRet>>
    /\ UNCHANGED <<wRest, ctxDone>>

\* goroutine: resultChan <- nil / resultChan <- latencyMs; return
\* (a blocking send: it needs room in the buffer)
HandOver(p) ==
    /\ platform = "windows"
    /\ wpg[p].gpc = "handover"
    /\ Len(wpg[p].resultChan) < ResultChanCap
    /\ wpg' = [wpg EXCEPT ![p].resultChan = Append(@, wpg[p].latencyMs), ![p].gpc = "exit"]
    /\ UNCHANGED <<wClosed, wReleases, wCloseCount, wCloseRet>>
    /\ UNCHANGED <<wRest, ctxDone>>

\* select { case result := <-resultChan: return result
PingReceiveWindows(p) ==
    /\ platform = "windows"
    /\ wpg[p].pc = "select"
    /\ wpg[p].resultChan # <<>>
    /\ wpg' = [wpg EXCEPT ![p].ret = Head(wpg[p].resultChan),
                          ![p].resultChan = Tail(@),
                          ![p].pc = "done"]
    /\ UNCHANGED <<wClosed, wReleases, wCloseCount, wCloseRet>>
    /\ UNCHANGED <<wRest, ctxDone>>

\* case <-ctx.Done(): return nil   (the goroutine and its native call go on)
PingCtxDoneWindows(p) ==
    /\ platform = "windows"
    /\ wpg[p].pc = "select"
    /\ ctxDone
    /\ wpg' = [wpg EXCEPT ![p].ret = Nil, ![p].pc = "done"]
    /\ UNCHANGED <<wClosed, wReleases, wCloseCount, wCloseRet>>
    /\ UNCHANGED <<wRest, ctxDone>>

\* Variant: Close releases the handle whether or not the manager is closed already.
CloseWindows_Unguarded ==
    /\ platform = "windows"
    /\ \A p \in Pings : wpg[p].pc \in {"idle", "done"}
    /\ wCloseCount < MaxCloseCalls
    /\ wClosed' = TRUE
    /\ wReleases' = wReleases + 1
    /\ \E r \in CloseHandleResults : wCloseRet' = r
    /\ wCloseCount' = wCloseCount + 1
    /\ UNCHANGED wpg
    /\ UNCHANGED <<wRest, ctxDone>>

\* Close, under m.mu: if m.closed { return nil }; m.closed = true;
\* return icmp.IcmpCloseHandle(m.handle)
\* The owner closes the manager when none of its Ping calls is running; goroutines of
\* calls that returned on cancellation may still be inside their native call.
CloseWindows ==
    /\ platform = "windows"
    /\ \A p \in Pings : wpg[p].pc \in {"idle", "done"}
    /\ wCloseCount < MaxCloseCalls
    /\ IF wClosed
         THEN /\ wCloseRet' = NoError
              /\ UNCHANGED <<wClosed, wReleases>>
         ELSE /\ wClosed' = TRUE
              /\ wReleases' = wReleases + 1
              /\ \E r \in CloseHandleResults : wCloseRet' = r
    /\ wCloseCount' = wCloseCount + 1
    /\ UNCHANGED wpg
    /\ UNCHANGED <<wRest, ctxDone>>

NextWindows ==
    \/ CancelPingCtxWindows
    \/ \E p \in Pings : PingCallWindows(p)
    \/ \E p \in Pings : NativeCallReturns(p)
    \/ \E p \in Pings : HandOver(p)
    \/ \E p \in Pings : PingReceiveWindows(p)
    \/ \E p \in Pings : PingCtxDoneWindows(p)
    \/ CloseWindows

SpecWindows == InitWindows /\ [][NextWindows]_vars

\* ============================================ the manager of either platform
InitManagers == InitSocket \/ InitWindows

NextManagers ==
    \/ platform = "posix" /\ NextSocket
    \/ platform = "windows" /\ NextWindows

SpecManagers == InitManagers /\ [][NextManagers]_vars

\* ============================================== api.Client.GetUserLocation
\* What one HTTP exchange can meet: a transport error (always so once ctx is cancelled,
\* the request carries ctx), or a response with a status code, a content type that is
\* or is not application/json, and a body that does or does not decode.
StatusCodes == {200, 404, 408, 429, 500, 503}
TransportError == [transport |-> FALSE, status |-> 0, json |-> FALSE, decodes |-> FALSE]
Responses ==
    {TransportError}
    \cup {[transport |-> TRUE, status |-> c, json |-> TRUE, decodes |-> TRUE] : c \in StatusCodes}
    \cup {[transport |-> TRUE, status |-> 200, json |-> FALSE, decodes |-> TRUE],
          [transport |-> TRUE, status |-> 200, json |-> TRUE, decodes |-> FALSE]}

\* Variant: only 503 is retried.
isRetriableStatusCode_Only503(statusCode) == statusCode = 503

\* isRetriableStatusCode
isRetriableStatusCode(statusCode) ==
    \/ statusCode = 503
    \/ statusCode = 429
    \/ statusCode = 408
    \/ statusCode >= 500

\* doGetUserLocation: the error of one attempt. apiError: it is an *Error (errors.As
\* succeeds); Retriable: its flag. A nil error (NilErr) comes with the decoded location.
doGetUserLocation(resp) ==
    IF ~resp.transport
      THEN [isNil |-> FALSE, apiError |-> FALSE, Retriable |-> FALSE]
    ELSE IF resp.status # 200
      THEN [isNil |-> FALSE, apiError |-> TRUE, Retriable |-> isRetriableStatusCode(resp.status)]
    ELSE IF ~resp.json \/ ~resp.decodes
      THEN [isNil |-> FALSE, apiError |-> TRUE, Retriable |-> FALSE]
    ELSE NilErr

\* The location decoded from a good response.
TheLocation == Some("1.2.3.4")

\* return nil, fmt.Errorf("failed after %d attempts: %w", c.maxRetries+1, lastErr)
FailedAfter(n, err) == [failedAfter |-> n, wrapped |-> err]

aRest == <<dRest, svars, wvars>>

InitApi ==
    /\ numLocations = 0 /\ workers = 0 /\ ipVersion = "IPv4" /\ factoryFails = FALSE
    /\ timeoutMs = 500
    /\ ctxDone = FALSE
    /\ DispatcherAtRest
    /\ NewSocketManager(protocolICMP)
    /\ platform = "posix"
    /\ NewWindowsSocketManager
    /\ maxRetries \in -1..MaxRetries
    /\ apiPc = "loop"
    /\ attempt = 0
    /\ lastErr = NilErr
    /\ responses = <<>>
    /\ apiRet = [location |-> Nil, err |-> PlainError("unset")]

\* The caller cancels ctx.
CancelApiCtx ==
    /\ apiPc # "returned"
    /\ ~ctxDone
    /\ ctxDone' = TRUE
    /\ UNCHANGED avars
    /\ UNCHANGED aRest

\* for attempt := 0; attempt <= c.maxRetries; ... : the loop condition, and for
\* attempt > 0 the entry into the backoff wait
LoopCondition ==
    /\ apiPc = "loop"
    /\ IF attempt <= maxRetries
         THEN /\ apiPc' = IF attempt > 0 THEN "delay" ELSE "attempt"
              /\ UNCHANGED apiRet
         ELSE /\ apiPc' = "returned"
              /\ apiRet' = [location |-> Nil, err |-> FailedAfter(maxRetries + 1, lastErr)]
    /\ UNCHANGED <<maxRetries, attempt, lastErr, responses>>
    /\ UNCHANGED <<aRest, ctxDone>>

\* select { case <-time.After(delay):
DelayElapsed ==
    /\ apiPc = "delay"
    /\ apiPc' = "attempt"
    /\ UNCHANGED <<maxRetries, attempt, lastErr, responses, apiRet>>
    /\ UNCHANGED <<aRest, ctxDone>>

\* case <-ctx.Done(): return nil, ctx.Err()
DelayCancelled ==
    /\ apiPc = "delay"
    /\ ctxDone
    /\ apiPc' = "returned"
    /\ apiRet' = [location |-> Nil, err |-> PlainError(CtxErr(ctxDone))]
    /\ UNCHANGED <<maxRetries, attempt, lastErr, responses>>
    /\ UNCHANGED <<aRest, ctxDone>>

\* location, err := c.doGetUserLocation(ctx) and what the loop body does with it:
\* return on success, break on a non-retriable *Error, continue otherwise
Attempt ==
    /\ apiPc = "attempt"
    /\ \E resp \in (IF ctxDone THEN {TransportError} ELSE Responses) :
          LET err == doGetUserLocation(resp)
          IN /\ responses' = Append(responses, resp)
             /\ IF err.isNil
                  THEN /\ apiPc' = "returned"
                       /\ apiRet' = [location |-> TheLocation, err |-> PlainError(NoError)]
                       /\ UNCHANGED <<lastErr, attempt>>
                ELSE IF err.apiError /\ ~err.Retriable
                  THEN /\ lastErr' = err
                       /\ apiPc' = "returned"
                       /\ apiRet' = [location |-> Nil, err |-> FailedAfter(maxRetries + 1, err)]
                       /\ UNCHANGED attempt
                ELSE /\ lastErr' = err
                     /\ attempt' = attempt + 1
                     /\ apiPc' = "loop"
                     /\ UNCHANGED apiRet
    /\ UNCHANGED maxRetries
    /\ UNCHANGED <<aRest, ctxDone>>

NextApi ==
    \/ CancelApiCtx
    \/ LoopCondition
    \/ DelayElapsed
    \/ DelayCancelled
    \/ Attempt

SpecApi == InitApi /\ [][NextApi]_vars

\* ====================================================================== claims
\* ---- helpers of the claims about LocationsWithFactory
Returned == mainPc = "returned"

\* The positions of the returned result set that carry location i.
EntriesOf(i) == {k \in 1..Len(ret.results) : ret.results[k].Location = i}

\* The address Ping must be given for location i.
AddressOf(i) == SelectAddress(ipVersion, Location(i))

\* The workers that are inside a Ping call.
Pinging == {w \in Workers : wk[w].pc = "ping"}

\* C1: not cancelled, pinger constructed, K targets and a worker bound W with
\* 1 <= W < K: the call returns exactly K results, Ping was called exactly once per
\* input target (and for nothing else), and every target appears exactly once in
\* the result set.
TheoremC1 ==
    (Returned /\ ~factoryFails /\ ~ctxDone /\ 1 <= workers /\ workers < numLocations)
    => /\ Len(ret.results) = numLocations
       /\ \A i \in 1..numLocations :
             /\ pingCalls[AddressOf(i)] = 1
             /\ Cardinality(EntriesOf(i)) = 1
       /\ \A a \in Addresses :
             (a \notin {AddressOf(i) : i \in 1..numLocations}) => pingCalls[a] = 0

\* A completed run of one worker over more than one target.
WitnessC1 ==
    /\ Returned /\ ~factoryFails /\ ~ctxDone
    /\ workers = 1 /\ numLocations >= 2
    /\ Len(ret.results) = numLocations

\* C3 as stated, for a run over a non-empty list whose pinger was constructed: whenever
\* the context was cancelled during the run, the call returns the results collected so
\* far with the cancellation error, never a nil error and never nil results.
OriginalC3 ==
    (Returned /\ numLocations > 0 /\ ~factoryFails /\ ctxDone)
    => (ret.err = Canceled /\ ~ret.isNil /\ ret.results = results)

\* C3 amended: once the pinger is constructed the call returns the results collected
\* so far, never nil; if the context was cancelled before the final ctx.Err() check
\* was made, the error is the cancellation error. (A cancellation that arrives after
\* that check, while the deferred Close runs, is not reported.)
TheoremC3 ==
    (Returned /\ ~factoryFails)
    => /\ ~ret.isNil
       /\ ret.results = results
       /\ (ctxDone /\ cancelledAt # "deferClose") => ret.err = Canceled

\* A run cancelled while collecting that returns a partial result set.
WitnessC3 ==
    /\ Returned /\ ~factoryFails
    /\ ctxDone /\ cancelledAt = "collect"
    /\ Len(ret.results) >= 1 /\ Len(ret.results) < numLocations
    /\ ret.err = Canceled

\* C4 as stated: with an empty target list the call returns an empty result set and
\* no error and makes no CreatePinger call.
OriginalC4 ==
    (Returned /\ numLocations = 0)
    => (createCalls = 0 /\ ret.err = NoError /\ Len(ret.results) = 0)

\* C5: pinger constructed and never cancelled: the error is nil whatever the Ping
\* calls returned; every entry carries exactly what the Ping call for its target
\* returned, and with at least one worker every target was probed and has an entry.
TheoremC5 ==
    (Returned /\ ~factoryFails /\ ~ctxDone)
    => /\ ret.err = NoError
       /\ \A k \in 1..Len(ret.results) :
             pingRet[ret.results[k].Location] = <<ret.results[k].Latency>>
       /\ workers >= 1 =>
             \A i \in 1..numLocations : Len(pingRet[i]) = 1 /\ EntriesOf(i) # {}

\* A completed run in which one probe failed and another one succeeded.
WitnessC5 ==
    /\ Returned /\ ~factoryFails /\ ~ctxDone
    /\ ret.err = NoError
    /\ \E j, k \in 1..Len(ret.results) :
          ret.results[j].Latency = Nil /\ ret.results[k].Latency # Nil

\* C6: if CreatePinger fails nothing else happens (no worker, no feeder, no Ping, no
\* Close), and the call returns that error with nil results.
TheoremC6 ==
    factoryFails
    => /\ started = 0
       /\ \A w \in Workers : wk[w].pc = "unstarted"
       /\ feederPc = "unstarted" /\ waiterPc = "unstarted"
       /\ \A a \in Addresses : pingCalls[a] = 0
       /\ closeCalls = 0
       /\ Returned => (ret.err = "factory error" /\ ret.isNil /\ createCalls = 1)

\* The call returned with the factory's error for a non-empty target list.
WitnessC6 ==
    Returned /\ factoryFails /\ numLocations > 0 /\ workers > 0 /\ ret.err = "factory error"

\* C7: a call with a non-empty target list constructs exactly one pinger and, if the
\* construction succeeded, has closed it exactly once when it returns.
TheoremC7 ==
    /\ createCalls <= 1
    /\ closeCalls <= 1
    /\ (Returned /\ numLocations > 0)
       => (createCalls = 1 /\ (~factoryFails => closeCalls = 1))

\* A cancelled run over a non-empty list that has returned with the pinger closed.
WitnessC7 ==
    Returned /\ numLocations > 0 /\ ~factoryFails /\ ctxDone /\ closeCalls = 1

\* C8: exactly min(workers, len(locations)) workers are started, so at most that many
\* Ping calls are in progress, and never more workers than targets.
TheoremC8 ==
    /\ started <= Min(workers, numLocations)
    /\ Cardinality({w \in Workers : wk[w].pc # "unstarted"}) = started
    /\ Cardinality(Pinging) <= Min(workers, numLocations)
    /\ (~factoryFails /\ mainPc \notin {"create", "startWorkers"})
       => started = Min(workers, numLocations)

\* A worker bound above the number of targets, all workers started, a Ping in progress.
WitnessC8 ==
    /\ workers > numLocations
    /\ mainPc = "collect"
    /\ started = numLocations
    /\ Pinging # {}

\* The address field of location i for the family named by the literal v, read off
\* the Location record: IPv6Address for "IPv6", IPv4Address for anything else.
FamilyAddress(v, i) == IF v = "IPv6" THEN <<6, i>> ELSE <<4, i>>

\* The result entries that exist: collected, still in resultChan or held by a worker.
Produced ==
    {results[k] : k \in 1..Len(results)}
    \cup {resultChan[k] : k \in 1..Len(resultChan)}
    \cup {[Location |-> wk[w].loc, Latency |-> wk[w].lat] : w \in {v \in Workers : wk[v].pc = "send"}}

\* C15: every Ping call a worker makes is given the IPv6Address of an input target
\* when the requested family is IPv6 and its IPv4Address otherwise (never the address
\* of the other family), with a timeout of timeoutMs milliseconds; every result entry
\* names the target that was probed and carries exactly the value its Ping returned.
TheoremC15 ==
    /\ \A a \in Addresses :
          pingCalls[a] > 0 => \E i \in 1..numLocations : a = FamilyAddress(ipVersion, i)
    /\ \A w \in Workers :
          wk[w].pc = "ping" => pingCalls[FamilyAddress(ipVersion, wk[w].loc)] = 1
    /\ pingTimeouts \subseteq {timeoutMs * 1000000}
    /\ \A e \in Produced :
          /\ e.Location \in 1..numLocations
          /\ pingCalls[FamilyAddress(ipVersion, e.Location)] = 1
          /\ pingRet[e.Location] = <<e.Latency>>
    /\ Returned => \A k \in 1..Len(ret.results) : ret.results[k] \in Produced

\* An IPv6 run over two targets has returned: both were probed at their IPv6Address
\* with the given timeout, one probe failed and one succeeded.
WitnessC15 ==
    /\ Returned /\ ~factoryFails /\ ipVersion = "IPv6" /\ numLocations = 2
    /\ timeoutMs = 1000 /\ pingTimeouts = {1000000000}
    /\ pingCalls[<<6, 1>>] = 1 /\ pingCalls[<<6, 2>>] = 1
    /\ pingCalls[<<4, 1>>] = 0 /\ pingCalls[<<4, 2>>] = 0
    /\ Len(ret.results) = 2
    /\ \E j, k \in 1..2 :
          /\ ret.results[j] = [Location |-> 1, Latency |-> Nil]
          /\ ret.results[k] = [Location |-> 2, Latency |-> Some(MockLatency)]

\* ---- helpers of the claims about socketManager
\* The IP a Ping call targets.
TargetIP(p) == ParseIP(pg[p].ipAddr)

\* The call has left its select (or never reached it) and its return value is fixed.
PingDecided(p) == pg[p].pc \in {"cleanup", "done"}

\* C2: a Ping call returns a latency only if the reader delivered to its own channel a
\* reply that carries the sequence number allocated for the call and comes from the
\* targeted IP; a reply from the host of another probe to a different host is never
\* turned into a latency.
TheoremC2 ==
    \A p \in Pings :
       /\ \A k \in 1..Len(respChan[p]) : respChan[p][k].seq = pg[p].seq
       /\ pg[p].ret # Nil
          => /\ pg[p].delivered # <<>>
             /\ \A k \in 1..Len(pg[p].delivered) :
                   /\ pg[p].delivered[k].seq = pg[p].seq
                   /\ IPEqual(pg[p].delivered[k].peerIP, TargetIP(p))
                   /\ \A q \in Pings :
                         (pg[q].pc # "idle" /\ ~IPEqual(TargetIP(q), TargetIP(p)))
                         => ~IPEqual(pg[p].delivered[k].peerIP, TargetIP(q))

\* Two probes to different hosts: the first returned a latency, the second was handed
\* a reply of the first one's host and returned absent.
WitnessC2 ==
    /\ MaxPings >= 2
    /\ pg[1].pc = "done" /\ pg[1].ret # Nil
    /\ pg[2].pc = "done" /\ pg[2].ret = Nil
    /\ TargetIP(1) # TargetIP(2)
    /\ pg[2].delivered # <<>>
    /\ pg[2].delivered[1].peerIP = TargetIP(1)

\* C9 as stated: a Ping whose context was cancelled when it was called, or while it
\* was waiting, returns absent.
OriginalC9 ==
    \A p \in Pings : (PingDecided(p) /\ pg[p].ctxAtSelect) => pg[p].ret = Nil

\* C10: a Ping to whose channel a reply with its sequence number but from another IP
\* than the targeted one was delivered never reports a latency: it returns absent.
TheoremC10 ==
    \A p \in Pings :
       (\E k \in 1..Len(pg[p].delivered) :
           /\ pg[p].delivered[k].seq = pg[p].seq
           /\ ~IPEqual(pg[p].delivered[k].peerIP, TargetIP(p)))
       => pg[p].ret = Nil

\* A Ping that received a reply with its sequence number from a foreign IP and returned.
WitnessC10 ==
    \E p \in Pings :
       /\ pg[p].pc = "done"
       /\ pg[p].delivered # <<>>
       /\ pg[p].delivered[1].seq = pg[p].seq
       /\ ~IPEqual(pg[p].delivered[1].peerIP, TargetIP(p))
       /\ respChan[p] = <<>>
       /\ pg[p].ret = Nil

\* The Ping calls that were made.
Called == {p \in Pings : pg[p].pc # "idle"}

\* C11: a Ping call with an address string that is no IP literal returns absent at
\* once: it sends nothing, is allocated no sequence number (the counter counts the
\* calls with a parseable address only) and registers no channel in the in-flight map.
TheoremC11 ==
    /\ \A p \in Called :
          pg[p].ipAddr = "not-an-ip"
          => /\ pg[p].pc = "done"
             /\ pg[p].ret = Nil
             /\ ~pg[p].sent
             /\ pg[p].seq = 0
             /\ \A e \in inFlight : e[2] # p
             /\ respChan[p] = <<>> /\ ~respClosed[p]
    /\ seqCounter = Cardinality({p \in Called : pg[p].ipAddr # "not-an-ip"})

\* A call with an unparseable address has returned while an earlier call is in flight:
\* the counter and the map show the earlier call only.
WitnessC11 ==
    /\ MaxPings >= 2
    /\ pg[1].pc = "wait" /\ pg[1].seq = 1
    /\ pg[2].pc = "done" /\ pg[2].ipAddr = "not-an-ip" /\ pg[2].ret = Nil
    /\ seqCounter = 1
    /\ inFlight = {<<1, 1>>}

\* C12 as stated: a Ping call that has sent its request and has not returned yet can
\* always go on to return: its timer can fire, or its deferred cleanup can run.
OriginalC12 ==
    \A p \in Pings :
       (pg[p].sent /\ pg[p].pc # "done") => ENABLED (PingTimeout(p) \/ PingCleanup(p))

\* C13: Close cancels the manager's context, then closes the socket, then waits for
\* the reader: once a Close call has returned the reader goroutine has exited and
\* holds no reply and no channel.
TheoremC13 ==
    /\ closePc = "closeConn" => mgrCtxDone
    /\ closePc = "wait" => (mgrCtxDone /\ connClosed)
    /\ closeCount >= 1
       => /\ mgrCtxDone /\ connClosed
          /\ readerPc = "exit"
          /\ readerMsg = NoMsg /\ readerCh = 0

\* Close has returned on a manager whose reader had delivered a reply to a probe.
WitnessC13 ==
    /\ closeCount = 1 /\ closePc = "idle"
    /\ readerPc = "exit"
    /\ \E p \in Pings : pg[p].pc = "done" /\ pg[p].delivered # <<>> /\ pg[p].ret # Nil

\* C18: once a Ping call has returned, by whatever path, the in-flight map holds no
\* entry for its channel or for its sequence number; when every Ping call that was made
\* has returned the map is empty.
TheoremC18 ==
    /\ \A p \in Pings :
          pg[p].pc = "done"
          => /\ \A e \in inFlight : e[2] # p
             /\ pg[p].seq # 0 => \A e \in inFlight : e[1] # pg[p].seq
    /\ (\A p \in Pings : pg[p].pc \in {"idle", "done"}) => inFlight = {}

\* Two calls have returned and the map is empty: one timed out or was cancelled with
\* no reply delivered, the other failed to resolve its destination.
WitnessC18 ==
    /\ inFlight = {}
    /\ \E p, q \in Pings :
          /\ pg[p].pc = "done" /\ pg[p].sent /\ pg[p].delivered = <<>> /\ pg[p].ret = Nil
          /\ pg[q].pc = "done" /\ ~pg[q].sent /\ pg[q].seq # 0

\* C19 as stated: the reader never sends on a channel that the returning Ping has
\* closed, so its delivery never panics.
OriginalC19 == ~panicked

\* C20: when the reader looks up the sequence number of an echo reply and the in-flight
\* map has no entry for it (a stale, duplicate or foreign reply), the reply is dropped:
\* nothing is delivered to any probe channel, the map and the probes are unchanged,
\* nothing panics, and the reader is back at the top of its loop for the next receive.
TheoremC20 ==
    [][(/\ readerPc = "route"
        /\ \A e \in inFlight : e[1] # readerMsg.seq
        /\ readerPc' # "route")
       => (/\ readerPc' = "top"
           /\ inFlight' = inFlight
           /\ respChan' = respChan
           /\ respClosed' = respClosed
           /\ pg' = pg
           /\ readerCh' = 0
           /\ panicked' = panicked)]_vars

\* The reader has just dropped a stale reply: it carries the sequence number of a probe
\* that gave up with nothing delivered, while another probe is still waiting with its
\* entry in the map and its channel empty.
WitnessC20 ==
    /\ readerPc = "top" /\ readerMsg # NoMsg
    /\ \E p, q \in Pings :
          /\ pg[p].seq = readerMsg.seq
          /\ pg[p].pc = "done" /\ pg[p].sent /\ pg[p].delivered = <<>>
          /\ pg[q].pc = "wait" /\ respChan[q] = <<>>
          /\ inFlight = {<<pg[q].seq, q>>}

OriginalC16 ==
    \A p \in Pings :
       /\ (wpg[p].pc = "done" /\ wpg[p].cancelledInFlight) => wpg[p].ret = Nil
       /\ wpg[p].gpc = "handover" => Len(wpg[p].resultChan) < ResultChanCap

\* ---- helpers of the claim about Client.GetUserLocation
\* The attempts made, and what an attempt met, read off the HTTP exchange itself.
Attempts == Len(responses)
Succeeded(resp) == resp.transport /\ resp.status = 200 /\ resp.json /\ resp.decodes
FailedRetriably(resp) == ~resp.transport \/ resp.status \in {408, 429, 500, 503}
AllFailedRetriably == \A k \in 1..Attempts : FailedRetriably(responses[k])
ApiReturned == apiPc = "returned"

\* What C17 and its amendment have in common: never more than maxRetries+1 attempts;
\* every attempt but the last failed retriably (the call stops at the first success and
\* at the first non-retriable failure); the call returns the location exactly when its
\* last attempt succeeded, and an error with no location otherwise.
AttemptsBoundedC17 ==
    /\ Attempts <= maxRetries + 1
    /\ \A k \in 1..(Attempts - 1) : FailedRetriably(responses[k])
    /\ ApiReturned
       => IF Attempts >= 1 /\ Succeeded(responses[Attempts])
            THEN apiRet = [location |-> TheLocation, err |-> PlainError(NoError)]
            ELSE apiRet.location = Nil /\ apiRet.err # PlainError(NoError)

\* C17 as stated: at most maxRetries+1 attempts, stopping at the first success and at
\* the first non-retriable failure, and exactly maxRetries+1 attempts followed by an
\* error when every attempt fails with a retriable error.
OriginalC17 ==
    /\ AttemptsBoundedC17
    /\ (ApiReturned /\ AllFailedRetriably) => Attempts = maxRetries + 1

\* C17 amended: as stated, except that when every attempt fails retriably the call makes
\* exactly maxRetries+1 attempts only if it is not cancelled: a call whose context is
\* cancelled may return the context's error from the wait before a retry, after at
\* least one and at most maxRetries attempts.
TheoremC17 ==
    /\ AttemptsBoundedC17
    /\ (ApiReturned /\ AllFailedRetriably)
       => \/ Attempts = maxRetries + 1 /\ apiRet.err = FailedAfter(maxRetries + 1, lastErr)
          \/ /\ ctxDone /\ apiRet.err = PlainError(Canceled)
             /\ 1 <= Attempts /\ Attempts <= maxRetries
    /\ (ApiReturned /\ AllFailedRetriably /\ ~ctxDone) => Attempts = maxRetries + 1

\* Two retries allowed: the first two attempts met 503 and 500, the third succeeded
\* and the call returned its location after exactly three attempts.
WitnessC17 ==
    /\ ApiReturned /\ maxRetries = 2 /\ Attempts = 3
    /\ responses[1].status = 503 /\ responses[2].status = 500
    /\ Succeeded(responses[3])
    /\ apiRet = [location |-> TheLocation, err |-> PlainError(NoError)]
    /\ ~ctxDone

\* ---- worker bounds of zero or less
\* A step of the goroutine of LocationsWithFactory, or of the wg.Wait goroutine it
\* waits for while it ranges over resultChan.
MainStep ==
    CreatePinger \/ StartWorker \/ StartHelpers \/ WaitAndClose \/ Collect \/ CollectEnd
    \/ CheckCtx \/ DeferredClose

\* What C30 and its amendment share: with a worker bound of zero or less, a non-empty
\* target list and a constructed pinger the call is never stuck, starts no worker and
\* makes no Ping call, and returns an empty (non-nil) result set with the pinger closed.
NoWorkerRun(errs) ==
    (workers <= 0 /\ numLocations > 0 /\ ~factoryFails)
    => /\ ~Returned => ENABLED MainStep
       /\ started = 0
       /\ \A w \in Workers : wk[w].pc = "unstarted"
       /\ \A a \in Addresses : pingCalls[a] = 0
       /\ pingTimeouts = {}
       /\ Returned => /\ ret.results = <<>> /\ ~ret.isNil
                       /\ closeCalls = 1
                       /\ ret.err \in errs

\* C30 as stated: the error returned is nil.
OriginalC30 == NoWorkerRun({NoError})

\* C30 amended: as stated, except that the error is the cancellation error when the
\* context was cancelled before the final ctx.Err() check, and nil otherwise.
TheoremC30 ==
    NoWorkerRun({IF ctxDone /\ cancelledAt # "deferClose" THEN Canceled ELSE NoError})

\* A call with a negative worker bound over two targets returned, never cancelled.
WitnessC30 ==
    /\ Returned /\ workers < 0 /\ numLocations = 2 /\ ~factoryFails /\ ~ctxDone
    /\ ret.results = <<>> /\ ret.err = NoError /\ closeCalls = 1
    /\ feederPc = "exit" /\ workChan = <<1, 2>>

\* ---- the pinger is closed last
\* The deferred pinger.Close() is running or has run.
CloseCalled == mainPc = "deferClose" \/ closeCalls > 0

\* C26: when Close is called on the pinger, and from then on, every worker that was
\* started has exited (so no Ping call is in progress and none can be started), the
\* result sink is closed and drained and no result waits in a worker's hands.
TheoremC26 ==
    CloseCalled
    => /\ \A w \in Workers : wk[w].pc \in {"unstarted", "exit"}
       /\ Pinging = {}
       /\ started = NumWorkers(workers, numLocations) \/ workers < 0
       /\ waiterPc = "exit"
       /\ resultClosed /\ resultChan = <<>>

\* Close is being called after two workers probed one target each and were cancelled
\* while handing over their results.
WitnessC26 ==
    /\ mainPc = "deferClose" /\ closeCalls = 0
    /\ started = 2
    /\ \A i \in 1..2 : Len(pingRet[i]) = 1
    /\ ctxDone /\ Len(results) < 2

\* ---- termination of LocationsWithFactory
\* The feeder always has room in the work queue, a worker that holds a result always
\* has room in the result sink and the sink is open, and the sink is closed only when
\* every worker that was started has exited.
NeverBlocked ==
    /\ (feederPc = "feed" /\ feedIdx <= numLocations) => ENABLED FeederSend
    /\ \A w \in Workers : wk[w].pc = "send" => ENABLED WorkerSend(w)
    /\ resultClosed => \A w \in Workers : wk[w].pc \in {"unstarted", "exit"}

\* What is left to do, as a natural number: the statements the goroutine of
\* LocationsWithFactory, the feeder and the wg.Wait goroutine have before them, the
\* queued targets and results, and per worker the rest of its current iteration.
MainRank ==
    CASE mainPc = "create" -> 5
      [] mainPc = "startWorkers" -> 4
      [] mainPc = "collect" -> 3
      [] mainPc = "checkCtx" -> 2
      [] mainPc = "deferClose" -> 1
      [] OTHER -> 0
FeederRank == (numLocations + 1 - feedIdx) + (IF feederPc = "exit" THEN 0 ELSE 1)
WorkerRank(w) ==
    CASE wk[w].pc = "ping" -> 4
      [] wk[w].pc = "send" -> 3
      [] wk[w].pc = "exit" -> 0
      [] OTHER -> 1
RECURSIVE WorkerRanks(_)
WorkerRanks(n) == IF n = 0 THEN 0 ELSE WorkerRank(n) + WorkerRanks(n - 1)
Measure ==
    MainRank
    + (IF started < NumWorkers(workers, numLocations)
         THEN NumWorkers(workers, numLocations) - started ELSE 0)
    + 4 * (numLocations + 1 - feedIdx) + FeederRank
    + (IF waiterPc = "exit" THEN 0 ELSE 1)
    + 4 * Len(workChan) + Len(resultChan)
    + WorkerRanks(MaxWorkers)

\* C27: whatever the number of targets, the worker bound and the moment of cancellation,
\* the call returns when every Ping call returns: a call that has not returned always
\* has a goroutine that can take a step, and every step of a goroutine lowers Measure,
\* a natural number, so no schedule keeps the call from returning. On the way the feeder
\* never blocks on the work queue, no worker blocks on the result sink, and the sink is
\* closed after the last worker exited and never sent to afterwards.
TheoremC27 ==
    /\ []NeverBlocked
    /\ [](Measure >= 0 /\ (~Returned => ENABLED ProgramStep))
    /\ [][ctxDone' # ctxDone \/ Measure' < Measure]_vars

\* A run that was cancelled while two workers were inside Ping has returned.
WitnessC27 ==
    /\ Returned /\ ~factoryFails /\ numLocations = 2 /\ started = 2
    /\ ctxDone /\ cancelledAt = "collect"
    /\ \A i \in 1..2 : Len(pingRet[i]) = 1
    /\ Len(ret.results) = 1

\* ---- the feeder
\* The targets the feeder has put on the work queue.
Enqueued == 1..(feedIdx - 1)

\* The work queue is closed exactly when the feeder has returned (each of its two ways
\* out closes it, and it closes it nowhere else), the queue holds enqueued targets only,
\* and a target that was never enqueued was neither passed to Ping nor given a result.
FeederSafe ==
    /\ workClosed <=> feederPc = "exit"
    /\ \A k \in 1..Len(workChan) : workChan[k] \in Enqueued
    /\ \A i \in LocIdx \ Enqueued :
          /\ \A f \in {4, 6} : pingCalls[<<f, i>>] = 0
          /\ pingRet[i] = <<>>
          /\ \A e \in Produced : e.Location # i
          /\ \A w \in Workers : wk[w].loc # i

OriginalC29 ==
    [][ctxDone => /\ pingCalls' = pingCalls
                  /\ \A w \in Workers : wk[w].pc = "select" => wk'[w].pc # "ping"]_vars

\* ---- sequence numbers
\* The Ping calls that went through allocateSeq.
Allocated == {p \in Pings : pg[p].pc # "idle" /\ TargetIP(p) # NilIP}

\* The Ping calls whose probe is outstanding: a sequence number allocated, not returned.
Outstanding == {p \in Allocated : pg[p].pc # "done"}

\* C21: allocateSeq never gives the same value to two callers, whatever the interleaving
\* of the Ping calls that make them: no two probes share a sequence number, and the
\* in-flight map holds one entry per key, the channel of the probe that owns the number.
TheoremC21 ==
    /\ \A p, q \in Allocated : p # q => pg[p].seq # pg[q].seq
    /\ \A e, f \in inFlight : e[1] = f[1] => e = f
    /\ \A e \in inFlight : e[2] \in Outstanding /\ pg[e[2]].seq = e[1]

\* Two probes are outstanding at once, both waiting with their entries in the map.
WitnessC21 ==
    /\ \A p \in {1, 2} : pg[p].pc = "wait"
    /\ Cardinality(inFlight) = 2
    /\ pg[1].seq # pg[2].seq

\* C25 as stated: the sequence numbers of one manager increase over the whole range of
\* the 32-bit counter: a later allocateSeq call never returns a value less than or equal
\* to one an earlier call returned. (Ping calls are numbered in the order in which they
\* are made, which is the order of their allocations.)
OriginalC25 ==
    \A p, q \in Allocated : p < q => pg[p].seq < pg[q].seq

\* ---- one reply per probe
\* A probe's channel gets one reply at most, and once the reader has taken a probe's
\* channel out of the map (it holds it, or has delivered to it) the map has no entry
\* for that probe: a further reply with the same sequence number finds none.
OneReply ==
    \A p \in Pings :
       /\ Len(pg[p].delivered) <= 1
       /\ Len(respChan[p]) <= 1
       /\ (readerCh = p \/ pg[p].delivered # <<>>) => \A e \in inFlight : e[2] # p

\* Every entry that leaves the map is taken out by one party: by the reader, in the
\* step that looks it up and hands it the channel, or by the returning Ping, and then
\* the reader does not hold the channel.
OneOwner ==
    \A e \in inFlight :
       e \notin inFlight'
       => \/ readerPc = "route" /\ readerMsg.seq = e[1] /\ readerCh' = e[2]
          \/ /\ pg[e[2]].pc = "cleanup" /\ pg'[e[2]].pc = "done"
             /\ readerCh # e[2] /\ pg[e[2]].delivered = <<>>

\* C22: each probe's channel receives at most one reply in its lifetime: the reader
\* removes the map entry in the step in which it looks it up, so a second reply with the
\* same sequence number finds no entry, and the entry is taken out either by the reader
\* or by the returning Ping, never by both.
TheoremC22 == []OneReply /\ [][OneOwner]_vars

\* A probe got its reply and returned a latency; a second reply with its sequence
\* number has just been looked up, found no entry and been dropped.
WitnessC22 ==
    \E p \in Pings :
       /\ pg[p].pc = "done" /\ pg[p].ret # Nil /\ Len(pg[p].delivered) = 1
       /\ readerPc = "top" /\ readerMsg.seq = WireSeq(pg[p].seq) /\ readerCh = 0

\* ---- Close returns
\* C23 as stated: once Close is called the reader exits, from whatever point of its
\* iteration it is at, and the Close call returns.
OriginalC23 == (closePc # "idle") ~> (readerPc = "exit" /\ closePc = "idle")

\* ---- the ICMP handle
\* The goroutines of Ping calls that are inside IcmpSendEcho / Icmp6SendEcho2.
InNativeCall == {p \in Pings : wpg[p].gpc = "native"}

\* C28 as stated: Close never releases the handle while a native echo call of a Ping of
\* this manager is executing, the calls of Pings that returned on cancellation included:
\* no step releases the handle with a native call under way.
OriginalC28 == [][wReleases' # wReleases => InNativeCall = {}]_vars

====
